---------------------------- MODULE Spec2Model ----------------------------
(***************************************************************************)
(* Model of process_file of parse_pc80b_v5.py: the decoder of the PC-80B   *)
(* .dat body into 16-bit samples and the scan/mask loop that overwrites    *)
(* non-waveform regions.                                                   *)
(*                                                                         *)
(* Indices are 0-based as in the Python source; the sample with Python     *)
(* index k is samples[k + 1] of the TLA+ sequence (see At).                *)
(***************************************************************************)
EXTENDS Integers, Sequences, FiniteSets

(***************************************************************************)
(* Bounds of the explored input space.                                     *)
(***************************************************************************)
MaxRate == 1
MaxLen == 43
MaxHeader == 1
MaxTrailer == 3
MaxBytes == 4

(***************************************************************************)
(* Program constants.                                                      *)
(***************************************************************************)
BaselineSeconds == 20
AmplitudeMask == 4095
QualityShift == 4096
QualityMask == 15

(***************************************************************************)
(* Helpers.                                                                *)
(***************************************************************************)
Min2(a, b) == IF a <= b THEN a ELSE b

SetMin(S) == CHOOSE x \in S : \A y \in S : x <= y

SetMax(S) == CHOOSE x \in S : \A y \in S : x >= y

RECURSIVE FloorLog2(_)
FloorLog2(x) == IF x <= 1 THEN 0 ELSE 1 + FloorLog2(x \div 2)

RECURSIVE Pow2(_)
Pow2(e) == IF e = 0 THEN 1 ELSE 2 * Pow2(e - 1)

RECURSIVE BitAnd(_, _)
BitAnd(a, b) ==
    IF a = 0 \/ b = 0 THEN 0
    ELSE (a % 2) * (b % 2) + 2 * BitAnd(a \div 2, b \div 2)

\* samples[k] of the numpy array (0-based k).
At(s, k) == s[k + 1]

\* x & 0x0FFF on an unsigned value: the low 12 bits.
Amplitude(v) == v % (AmplitudeMask + 1)

\* (x >> 12) & 0x000F.
Quality(v) == (v \div QualityShift) % (QualityMask + 1)

(***************************************************************************)
(* IEEE-754 double products c * m for the literals 0.7 and 1.3 and an      *)
(* integer 0 <= m <= 4095.  The value is represented by the exact rational *)
(* tenths / 10 plus a rounding mark ulps in {-1, 0, 1}: the double is one  *)
(* unit in the last place below (-1) or above (+1) the integer tenths / 10 *)
(* or, when ulps = 0, compares with every integer and truncates as the     *)
(* exact rational does.                                                    *)
(*                                                                         *)
(* The double nearest 0.7 is 0.7 - 0.4 * 2^-53 and the one nearest 1.3 is  *)
(* 1.3 + 0.2 * 2^-52.  For m = 10k the exact product is the integer        *)
(* I = c10 * k displaced by 4k * 2^-53 towards dir; half the spacing of    *)
(* doubles next to I is 2^(e-53) with e = floor(log2 I), so the product    *)
(* rounds away from I exactly when 4k > 2^e (a tie rounds to the even      *)
(* mantissa, which is I).  For m not a multiple of 10 the product is at    *)
(* least 0.1 away from every integer and rounding cannot cross one.        *)
(***************************************************************************)
FloatMul(c10, dir, m) ==
    LET t == c10 * m
    IN  [tenths |-> t,
         ulps   |-> IF m > 0 /\ t % 10 = 0
                       /\ 4 * (m \div 10) > Pow2(FloorLog2(t \div 10))
                    THEN dir ELSE 0]

\* Variant: the lower bound taken as inclusive.
FloatLess_NonStrict(a, f) == 10 * a <= f.tenths

\* integer a < double f
FloatLess(a, f) == 10 * a < f.tenths \/ (10 * a = f.tenths /\ f.ulps > 0)

\* integer a > double f
FloatGreater(a, f) == 10 * a > f.tenths \/ (10 * a = f.tenths /\ f.ulps < 0)

\* int(f) for a non-negative double f: truncation.
FloatToInt(f) ==
    IF f.tenths % 10 = 0 /\ f.ulps < 0
    THEN (f.tenths \div 10) - 1
    ELSE f.tenths \div 10

(***************************************************************************)
(* Decoder (lines 41-47).                                                  *)
(***************************************************************************)
\* data[header_size:], with the odd trailing byte removed.
TailBytes(d, h) ==
    LET rest == IF h >= Len(d) THEN << >> ELSE SubSeq(d, h + 1, Len(d))
    IN  IF Len(rest) % 2 # 0 THEN SubSeq(rest, 1, Len(rest) - 1) ELSE rest

\* Variant: the units read big-endian.
FromBuffer_BigEndian(tail) ==
    [k \in 1..(Len(tail) \div 2) |-> 256 * tail[2 * k - 1] + tail[2 * k]]

\* np.frombuffer(tail, dtype="<u2"): little-endian 16-bit units.
FromBuffer(tail) ==
    [k \in 1..(Len(tail) \div 2) |-> tail[2 * k - 1] + 256 * tail[2 * k]]

DecodeSamples(d, h) == FromBuffer(TailBytes(d, h))

(***************************************************************************)
(* One iteration of the scan/mask loop (lines 53-79) as a function of the  *)
(* array s, the cursor i, the window length n and the region length.       *)
(***************************************************************************)
Window(s, i, n) == { Amplitude(At(s, k)) : k \in i..(i + n - 1) }

low_thresh(mn) == FloatMul(7, -1, mn)

high_thresh(mx) == FloatMul(13, 1, mx)

\* (x & 0x0FFF < low_thresh) | (x & 0x0FFF > high_thresh)
IsOutlier(v, lo, hi) ==
    \/ FloatLess(Amplitude(v), lo)
    \/ FloatGreater(Amplitude(v), hi)

\* Variant: the cursor idx left out of first_outlier.
Outliers_Relative(s, i, n, lo, hi) ==
    { k - i : k \in { j \in (i + n)..(Len(s) - 1) : IsOutlier(At(s, j), lo, hi) } }

\* idx + n_per_20s + np.where(...)[0]: the absolute indices of the outliers.
Outliers(s, i, n, lo, hi) ==
    { k \in (i + n)..(Len(s) - 1) : IsOutlier(At(s, k), lo, hi) }

RegionSamples(h, t) == (h + t) \div 2

\* Variant: the region taken from the start of the array.
EndIdx_FromZero(fo, rs, len) == Min2(rs, len)

\* Variant: the region one sample too long.
EndIdx_OneMore(fo, rs, len) == Min2(fo + rs + 1, len)

EndIdx(fo, rs, len) == Min2(fo + rs, len)

\* Variant: the factor 0.7 left out.
ReplacementValue_NoScale(mn) == Amplitude(mn)

ReplacementValue(mn) == Amplitude(FloatToInt(low_thresh(mn)))

\* Variant: the slice starts one sample late.
Overwrite_SkipFirst(s, fo, e, val) ==
    [k \in 1..Len(s) |-> IF fo + 1 <= k - 1 /\ k - 1 < e THEN val ELSE s[k]]

\* Variant: only the low 12 bits are replaced.
Overwrite_KeepQuality(s, fo, e, val) ==
    [k \in 1..Len(s) |->
        IF fo <= k - 1 /\ k - 1 < e
        THEN val + QualityShift * Quality(s[k]) ELSE s[k]]

\* Variant: the slice includes end_idx.
Overwrite_Inclusive(s, fo, e, val) ==
    [k \in 1..Len(s) |-> IF fo <= k - 1 /\ k - 1 <= e THEN val ELSE s[k]]

\* samples[first_outlier:end_idx] = replacement_value
Overwrite(s, fo, e, val) ==
    [k \in 1..Len(s) |-> IF fo <= k - 1 /\ k - 1 < e THEN val ELSE s[k]]

\* Lines 63-79, given the baseline of lines 55-57.
ScanFrom(s, i, n, rs, mn, mx) ==
    LET out == CHOOSE o \in { Outliers(s, i, n, lo, hi) :
                                 lo \in {low_thresh(mn)},
                                 hi \in {high_thresh(mx)} } : TRUE
    IN  IF out = {}
        THEN [kind |-> "break", min_signal |-> mn, max_signal |-> mx]
        ELSE LET fo  == SetMin(out)
                 e   == EndIdx(fo, rs, Len(s))
                 val == ReplacementValue(mn)
             IN  [kind |-> "mask", min_signal |-> mn, max_signal |-> mx,
                  first_outlier |-> fo, end_idx |-> e,
                  replacement_value |-> val,
                  samples |-> Overwrite(s, fo, e, val)]

\* Variant: the loop condition taken as idx + n_per_20s <= len(samples).
ScanIter_LoopLe(s, i, n, rs) ==
    IF ~(i + n <= Len(s))
    THEN [kind |-> "exit"]
    ELSE CHOOSE r \in { ScanFrom(s, i, n, rs, SetMin(w), SetMax(w)) :
                           w \in {Window(s, i, n)} } : TRUE

ScanIter(s, i, n, rs) ==
    IF ~(i + n < Len(s))
    THEN [kind |-> "exit"]
    ELSE \* the window is bound once so that it is evaluated once
         CHOOSE r \in { ScanFrom(s, i, n, rs, SetMin(w), SetMax(w)) :
                           w \in {Window(s, i, n)} } : TRUE

\* The whole loop, run from cursor i on array s.
RECURSIVE RunScan(_, _, _, _, _)
RunScan(s, i, n, rs, regions) ==
    LET it == CHOOSE r \in {ScanIter(s, i, n, rs)} : TRUE
    IN  IF it.kind = "mask"
        THEN RunScan(it.samples, it.end_idx, n, rs,
                     Append(regions, [start |-> it.first_outlier,
                                      end   |-> it.end_idx,
                                      val   |-> it.replacement_value]))
        ELSE [samples |-> s, zeroed_regions |-> regions]

(***************************************************************************)
(* State.                                                                  *)
(***************************************************************************)
VARIABLES
    data,              \* the bytes of the file
    header_size,       \* --header-size
    trailer_size,      \* --trailer-size
    sample_rate,       \* --samplerate
    samples,           \* the uint16 array
    n_per_20s,
    idx,
    zeroed_regions,
    min_signal,
    max_signal,
    first_outlier,
    end_idx,
    replacement_value,
    amplitudes,
    flags,
    pc

vars == << data, header_size, trailer_size, sample_rate, samples, n_per_20s,
           idx, zeroed_regions, min_signal, max_signal, first_outlier,
           end_idx, replacement_value, amplitudes, flags, pc >>

locals == << min_signal, max_signal, first_outlier, end_idx,
             replacement_value >>

(***************************************************************************)
(* Inputs.                                                                 *)
(***************************************************************************)
\* The two bytes of a 16-bit unit in file order.
EncodeSamples(s) ==
    [k \in 1..(2 * Len(s)) |->
        IF k % 2 = 1 THEN s[(k + 1) \div 2] % 256 ELSE s[k \div 2] \div 256]

HeaderBytes(h) == [k \in 1..h |-> 255]

Raw(amp, q) == amp + QualityShift * q

ByteVals == {0, 1, 255}

BaseVals == {Raw(10, 0), Raw(11, 3), Raw(90, 15)}

SpikeVals == {Raw(6, 9), Raw(7, 1), Raw(13, 0), Raw(14, 15)}

\* Positions at which an input may depart from its base value.
SpikePositions(n) == {n - 1, n, n + 1, 2 * n, 2 * n + 1, 2 * n + 2}

LongLens(n) == {n, n + 1, MaxLen - 1, MaxLen}

\* Sequences of length len equal to a base value of B except at up to two
\* positions of Pos, where they hold values of V.
SpikedSeqs(len, Pos, B, V) ==
    LET P == Pos \cap (0..(len - 1))
    IN  { [k \in 1..len |->
             IF k - 1 = p1 THEN v1 ELSE IF k - 1 = p2 THEN v2 ELSE b] :
          << b, p1, v1, p2, v2 >> \in
             { q \in B \X (P \cup {-1}) \X (V \cup {0})
                      \X (P \cup {-1}) \X (V \cup {0}) :
                 /\ (q[2] = -1) = (q[3] = 0)
                 /\ (q[4] = -1) = (q[5] = 0)
                 /\ (q[4] = -1 \/ q[2] < q[4])
                 /\ (q[2] = -1 => q[4] = -1) } }

\* The single-outlier scenario: a baseline window of amplitude 1000, one
\* sample of amplitude 4095 with quality q, rs samples taken from arb, and a
\* second run of n samples of amplitude 1000.
QualityVals == {0, 5, 15}

ArbVals == {Raw(0, 0), Raw(699, 2), Raw(700, 0), Raw(1000, 7), Raw(1300, 0),
            Raw(1301, 0), Raw(4095, 15)}

ScenarioSeq(n, q, arb) ==
    [k \in 1..n |-> Raw(1000, 0)] \o << Raw(4095, q) >> \o arb
        \o [k \in 1..n |-> Raw(1000, 0)]

ByteSeqs == UNION { [1..len -> ByteVals] : len \in 0..MaxBytes }

InitCommon ==
    /\ samples = << >>
    /\ n_per_20s = 0
    /\ idx = 0
    /\ zeroed_regions = << >>
    /\ min_signal = 0
    /\ max_signal = 0
    /\ first_outlier = 0
    /\ end_idx = 0
    /\ replacement_value = 0
    /\ amplitudes = << >>
    /\ flags = << >>
    /\ pc = "start"

\* Arbitrary short files, any header size (also beyond the end of the file).
InitShort ==
    /\ header_size \in 0..(MaxHeader + 1)
    /\ trailer_size \in 0..MaxTrailer
    /\ sample_rate \in 1..MaxRate
    /\ data \in ByteSeqs
    /\ InitCommon

\* Files long enough for the loop to run: a header and an encoded body.
InitLong ==
    /\ header_size \in 0..MaxHeader
    /\ trailer_size \in 0..MaxTrailer
    /\ sample_rate \in 1..MaxRate
    /\ \E len \in LongLens(sample_rate * BaselineSeconds) :
         \E s \in SpikedSeqs(len, SpikePositions(sample_rate * BaselineSeconds),
                             BaseVals, SpikeVals) :
            data = HeaderBytes(header_size) \o EncodeSamples(s)
    /\ InitCommon

InitScenario ==
    /\ header_size \in 0..MaxHeader
    /\ trailer_size \in 0..MaxTrailer
    /\ sample_rate \in 1..MaxRate
    /\ \E q \in QualityVals :
         \E arb \in [1..RegionSamples(header_size, trailer_size) -> ArbVals] :
            data = HeaderBytes(header_size)
                     \o EncodeSamples(ScenarioSeq(sample_rate * BaselineSeconds,
                                                  q, arb))
    /\ InitCommon

Init == InitShort \/ InitLong \/ InitScenario

\* The inputs of the termination check: a part of InitLong.
TermPositions(n) == {n - 1, n, 2 * n + 1, 2 * n + 2}

TermLens(n) == {n, MaxLen}

InitTerm ==
    /\ header_size \in 0..MaxHeader
    /\ trailer_size \in 0..MaxTrailer
    /\ sample_rate \in 1..MaxRate
    /\ \E len \in TermLens(sample_rate * BaselineSeconds) :
         \E s \in SpikedSeqs(len, TermPositions(sample_rate * BaselineSeconds),
                             {Raw(11, 3)}, {Raw(6, 9), Raw(14, 15)}) :
            data = HeaderBytes(header_size) \o EncodeSamples(s)
    /\ InitCommon

(***************************************************************************)
(* Actions.                                                                *)
(***************************************************************************)
\* Lines 36-51: read, decode, initialise the loop.
Decode ==
    /\ pc = "start"
    /\ samples' = DecodeSamples(data, header_size)
    /\ n_per_20s' = sample_rate * BaselineSeconds
    /\ idx' = 0
    /\ zeroed_regions' = << >>
    /\ pc' = "scan"
    /\ UNCHANGED << data, header_size, trailer_size, sample_rate, locals,
                    amplitudes, flags >>

\* Line 53: the loop condition fails.
ScanExit ==
    /\ pc = "scan"
    /\ ScanIter(samples, idx, n_per_20s,
                RegionSamples(header_size, trailer_size)).kind = "exit"
    /\ pc' = "build"
    /\ UNCHANGED << data, header_size, trailer_size, sample_rate, samples,
                    n_per_20s, idx, zeroed_regions, locals, amplitudes, flags >>

\* Lines 53-67: an iteration that finds no outlier and breaks.
ScanBreak ==
    /\ pc = "scan"
    /\ \E it \in {ScanIter(samples, idx, n_per_20s,
                             RegionSamples(header_size, trailer_size))} :
           /\ it.kind = "break"
           /\ min_signal' = it.min_signal
           /\ max_signal' = it.max_signal
    /\ pc' = "build"
    /\ UNCHANGED << data, header_size, trailer_size, sample_rate, samples,
                    n_per_20s, idx, zeroed_regions, first_outlier, end_idx,
                    replacement_value, amplitudes, flags >>

\* Lines 53-79: an iteration that masks a region and advances the cursor.
ScanMask ==
    /\ pc = "scan"
    /\ \E it \in {ScanIter(samples, idx, n_per_20s,
                             RegionSamples(header_size, trailer_size))} :
           /\ it.kind = "mask"
           /\ min_signal' = it.min_signal
           /\ max_signal' = it.max_signal
           /\ first_outlier' = it.first_outlier
           /\ end_idx' = it.end_idx
           /\ replacement_value' = it.replacement_value
           /\ samples' = it.samples
           /\ zeroed_regions' =
                 Append(zeroed_regions, [start |-> it.first_outlier,
                                         end   |-> it.end_idx,
                                         val   |-> it.replacement_value])
           /\ idx' = it.end_idx
    /\ pc' = "scan"
    /\ UNCHANGED << data, header_size, trailer_size, sample_rate, n_per_20s,
                    amplitudes, flags >>

\* Lines 82-84: the columns of the parsed CSV.
BuildCsv ==
    /\ pc = "build"
    /\ amplitudes' = [k \in 1..Len(samples) |-> Amplitude(samples[k])]
    /\ flags' = [k \in 1..Len(samples) |-> Quality(samples[k])]
    /\ pc' = "done"
    /\ UNCHANGED << data, header_size, trailer_size, sample_rate, samples,
                    n_per_20s, idx, zeroed_regions, locals >>

Next == Decode \/ ScanExit \/ ScanBreak \/ ScanMask \/ BuildCsv

Spec == Init /\ [][Next]_vars

\* process_file is a sequential program: it keeps running until it returns.
SpecFair == InitTerm /\ [][Next]_vars /\ WF_vars(Next)

TypeOK ==
    /\ pc \in {"start", "scan", "build", "done"}
    /\ idx \in 0..Len(samples)

(***************************************************************************)
(* Vocabulary of the properties.  The thresholds are restated here in      *)
(* exact integer arithmetic (10a < 7 min, 10a > 13 max), independently of  *)
(* the floating-point operators of the model.                              *)
(***************************************************************************)
\* The sequence as decoded, before any masking.
Decoded == DecodeSamples(data, header_size)

RegionLen == (header_size + trailer_size) \div 2

WindowLen == sample_rate * BaselineSeconds

Regions == 1..Len(zeroed_regions)

InRegion(k, r) == r.start <= k /\ k < r.end

Covered(k) == \E j \in Regions : InRegion(k, zeroed_regions[j])

Low12(v) == v % 4096

High4(v) == (v \div 4096) % 16

\* a | b, bit by bit, for repacking the two fields.
RECURSIVE BitOr(_, _)
BitOr(a, b) ==
    IF a = 0 THEN b
    ELSE IF b = 0 THEN a
    ELSE (IF a % 2 = 1 \/ b % 2 = 1 THEN 1 ELSE 0) + 2 * BitOr(a \div 2, b \div 2)

\* The two fields, bit by bit: v & 0x0FFF and (v >> 12) & 0xF.
AmplitudeBits(v) == BitAnd(v, AmplitudeMask)

QualityBits(v) == BitAnd(v \div QualityShift, QualityMask)

WinMin(s, i) == SetMin({ Low12(At(s, k)) : k \in i..(i + WindowLen - 1) })

WinMax(s, i) == SetMax({ Low12(At(s, k)) : k \in i..(i + WindowLen - 1) })

ExactOutlier(v, mn, mx) == 10 * Low12(v) < 7 * mn \/ 10 * Low12(v) > 13 * mx

ExactOutliers(s, i) ==
    CHOOSE o \in { { k \in (i + WindowLen)..(Len(s) - 1) :
                        ExactOutlier(At(s, k), mn, mx) } :
                   mn \in {WinMin(s, i)}, mx \in {WinMax(s, i)} } : TRUE

Finished == pc \in {"build", "done"}

\* A second run of the loop, from idx = 0, on the array the first run left.
Rescan == RunScan(samples, 0, n_per_20s, RegionLen, << >>)

(***************************************************************************)
(* C1.  Idempotence under re-scan, as stated: once the loop has finished,  *)
(* a second run from idx = 0 on the masked sequence records no interval    *)
(* and leaves the sequence unchanged.                                      *)
(***************************************************************************)
C1_RescanIdempotent ==
    Finished =>
        \E r \in {Rescan} : r.zeroed_regions = << >> /\ r.samples = samples

(***************************************************************************)
(* C1 as amended.  A second run records nothing and changes nothing when   *)
(* the first run recorded nothing; otherwise every interval it records     *)
(* starts at or after the first interval of the first run, and it records  *)
(* one starting exactly there precisely when the region length is 0 or     *)
(* the replacement value of that interval is strictly below 0.7 times the  *)
(* minimum of the first baseline window.                                   *)
(***************************************************************************)
C1_RescanAmended ==
    Finished =>
        \E r \in {Rescan} :
            IF zeroed_regions = << >>
            THEN r.zeroed_regions = << >> /\ r.samples = samples
            ELSE /\ \A j \in 1..Len(r.zeroed_regions) :
                       r.zeroed_regions[j].start >= zeroed_regions[1].start
                 /\ (/\ r.zeroed_regions # << >>
                     /\ r.zeroed_regions[1].start = zeroed_regions[1].start)
                    <=> (\/ RegionLen = 0
                         \/ 10 * zeroed_regions[1].val < 7 * WinMin(samples, 0))

C1_Witness ==
    /\ pc = "done"
    /\ zeroed_regions # << >>
    /\ RegionLen >= 1
    /\ Rescan.zeroed_regions # << >>
    /\ Rescan.samples # samples

(***************************************************************************)
(* C2.  Termination: the loop eventually stops; the cursor idx grows by at *)
(* least 1 in every iteration that continues, and never exceeds            *)
(* len(samples).                                                           *)
(***************************************************************************)
C2_Termination ==
    /\ <>Finished
    /\ [][pc = "scan" /\ pc' = "scan" => idx' >= idx + 1]_vars
    /\ [](idx <= Len(samples))

C2_Witness ==
    /\ pc = "done"
    /\ Len(zeroed_regions) >= 2
    /\ idx = Len(samples)

(***************************************************************************)
(* C3.  Non-overlap: for recorded intervals i before j, i.end <= j.start   *)
(* and i.start <= j.start; the list only grows by appending.               *)
(***************************************************************************)
C3_NonOverlap ==
    /\ [](\A i \in Regions : \A j \in Regions :
            i < j => /\ zeroed_regions[i].end <= zeroed_regions[j].start
                     /\ zeroed_regions[i].start <= zeroed_regions[j].start)
    /\ [][\/ zeroed_regions' = zeroed_regions
          \/ /\ Len(zeroed_regions') = Len(zeroed_regions) + 1
             /\ SubSeq(zeroed_regions', 1, Len(zeroed_regions)) = zeroed_regions
         ]_vars

C3_Witness ==
    /\ pc = "scan"
    /\ Len(zeroed_regions) = 2
    /\ zeroed_regions[1].start < zeroed_regions[1].end
    /\ zeroed_regions[2].start < zeroed_regions[2].end

(***************************************************************************)
(* C4.  Mask invariant: when the scan has finished, every sample inside a  *)
(* recorded interval has quality 0 and amplitude equal to the interval's   *)
(* replacement value, which lies in 0..4095 (also in the CSV columns); an  *)
(* iteration never alters a sample masked earlier.                         *)
(***************************************************************************)
C4_MaskInvariant ==
    /\ [](Finished =>
            \A j \in Regions : \A k \in 0..(Len(samples) - 1) :
                InRegion(k, zeroed_regions[j]) =>
                    /\ High4(At(samples, k)) = 0
                    /\ Low12(At(samples, k)) = zeroed_regions[j].val
                    /\ zeroed_regions[j].val \in 0..4095
                    /\ pc = "done" =>
                          /\ At(flags, k) = 0
                          /\ At(amplitudes, k) = zeroed_regions[j].val)
    /\ [][\A k \in 0..(Len(samples) - 1) :
             Covered(k) => At(samples', k) = At(samples, k)]_vars

C4_Witness ==
    /\ pc = "done"
    /\ Len(zeroed_regions) = 2
    /\ \E k \in 0..(Len(samples) - 1) :
          /\ InRegion(k, zeroed_regions[1])
          /\ High4(At(Decoded, k)) # 0
          /\ At(amplitudes, k) # Low12(At(Decoded, k))

(***************************************************************************)
(* C5.  Single-outlier scenario, as stated: on a baseline window of 1000,  *)
(* one sample of 4095, region_len arbitrary samples and a second window of *)
(* 1000, the scan returns exactly the interval                             *)
(* {window_len, window_len + region_len, 700}, and a second scan of the    *)
(* result returns no interval.                                             *)
(***************************************************************************)
ScenarioInput ==
    /\ Len(data) = header_size + 2 * (2 * WindowLen + 1 + RegionLen)
    /\ \A D \in {Decoded} :
          /\ \A k \in 0..(WindowLen - 1) : Low12(At(D, k)) = 1000
          /\ Low12(At(D, WindowLen)) = 4095
          /\ \A k \in (WindowLen + RegionLen + 1)..(2 * WindowLen + RegionLen) :
                Low12(At(D, k)) = 1000

ScenarioInterval ==
    zeroed_regions = << [start |-> WindowLen,
                         end   |-> WindowLen + RegionLen,
                         val   |-> 700] >>

C5_ScenarioOriginal ==
    (Finished /\ ScenarioInput) =>
        /\ ScenarioInterval
        /\ Rescan.zeroed_regions = << >>

(***************************************************************************)
(* C5 as amended.  The first scan returns exactly that interval for every  *)
(* choice; the second scan returns no interval exactly when region_len is  *)
(* at least 1 and the last of the arbitrary samples (index                 *)
(* window_len + region_len, which the interval does not cover) has an      *)
(* amplitude in 700..1300.                                                 *)
(***************************************************************************)
C5_ScenarioAmended ==
    (Finished /\ ScenarioInput) =>
        /\ ScenarioInterval
        /\ Rescan.zeroed_regions = << >>
             <=> /\ RegionLen >= 1
                 /\ Low12(At(Decoded, WindowLen + RegionLen)) \in 700..1300

C5_Witness ==
    /\ pc = "done"
    /\ ScenarioInput
    /\ RegionLen = 2
    /\ Low12(At(Decoded, WindowLen + 1)) = 0
    /\ Low12(At(Decoded, WindowLen + 2)) = 1300
    /\ Rescan.zeroed_regions = << >>

(***************************************************************************)
(* C6.  Threshold boundary: in each iteration, with min and max the        *)
(* extreme amplitudes of the window [idx, idx + window_len), the interval  *)
(* start is the first index >= idx + window_len whose amplitude a has      *)
(* 10a < 7 min or 10a > 13 max (strict), and the loop breaks when there is *)
(* none; samples inside the window are not tested.                         *)
(***************************************************************************)
C6_ThresholdBoundary ==
    [][(pc = "scan" /\ idx + WindowLen < Len(samples)) =>
          IF ExactOutliers(samples, idx) = {}
          THEN pc' = "build" /\ zeroed_regions' = zeroed_regions
          ELSE /\ pc' = "scan"
               /\ first_outlier' = SetMin(ExactOutliers(samples, idx))
               /\ zeroed_regions'[Len(zeroed_regions')].start = first_outlier'
      ]_vars

\* A sample exactly on a threshold was passed over and its successor, one
\* unit beyond the threshold, was taken as the interval start.
C6_Witness ==
    /\ pc = "scan"
    /\ Len(zeroed_regions) = 1
    /\ first_outlier = WindowLen + 1
    /\ \/ /\ 10 * Low12(At(Decoded, WindowLen)) = 7 * min_signal
          /\ Low12(At(Decoded, first_outlier)) + 1 = Low12(At(Decoded, WindowLen))
       \/ /\ 10 * Low12(At(Decoded, WindowLen)) = 13 * max_signal
          /\ Low12(At(Decoded, first_outlier)) - 1 = Low12(At(Decoded, WindowLen))

(***************************************************************************)
(* C7.  Short buffer: when len(samples) <= window_len the loop performs no *)
(* iteration, the interval list is empty and every sample is unchanged.    *)
(***************************************************************************)
C7_ShortBuffer ==
    /\ []((pc # "start" /\ Len(samples) <= WindowLen) =>
            /\ zeroed_regions = << >>
            /\ samples = Decoded
            /\ idx = 0)
    /\ [][(pc = "scan" /\ Len(samples) <= WindowLen) =>
            /\ pc' = "build"
            /\ UNCHANGED << samples, idx, zeroed_regions, locals >>]_vars

C7_Witness ==
    /\ pc = "done"
    /\ Len(samples) = WindowLen
    /\ \E k \in 0..(Len(samples) - 1) : Low12(At(samples, k)) = 6

(***************************************************************************)
(* C8.  Decoder: the decoded sequence has floor(max(len - header_size, 0)  *)
(* / 2) samples, sample k is byte[header_size + 2k] + 256 *                *)
(* byte[header_size + 2k + 1], and splitting a decoded value into its      *)
(* amplitude and quality fields and repacking them gives the value back.   *)
(***************************************************************************)
C8_Decoder ==
    [][pc = "start" =>
          /\ Len(samples') =
                (IF Len(data) > header_size THEN Len(data) - header_size ELSE 0)
                   \div 2
          /\ \A k \in 0..(Len(samples') - 1) :
                /\ At(samples', k) = At(data, header_size + 2 * k)
                                       + 256 * At(data, header_size + 2 * k + 1)
                /\ \E v \in {At(samples', k)} :
                      BitOr(AmplitudeBits(v), QualityBits(v) * QualityShift) = v
      ]_vars

\* An odd trailing byte was dropped after a header, and byte order matters.
C8_Witness ==
    /\ pc = "scan"
    /\ header_size = 1
    /\ Len(data) = 4
    /\ Len(samples) = 1
    /\ data[2] # data[3]
    /\ samples[1] >= QualityShift

(***************************************************************************)
(* C9.  Non-empty, strictly advancing regions, as stated: every recorded   *)
(* interval has start_index < end_index (end > first_outlier >= idx) and   *)
(* start indices are strictly increasing.                                  *)
(***************************************************************************)
C9_NonEmptyOriginal ==
    /\ \A j \in Regions : zeroed_regions[j].start < zeroed_regions[j].end
    /\ \A i \in Regions : \A j \in Regions :
          i < j => zeroed_regions[i].start < zeroed_regions[j].start

(***************************************************************************)
(* C9 as amended.  In every iteration that records an interval,            *)
(* end >= first_outlier >= idx + window_len > idx, and end > first_outlier *)
(* exactly when region_len = floor((header_size + trailer_size) / 2) >= 1; *)
(* start indices are strictly increasing.                                  *)
(***************************************************************************)
C9_AdvancingAmended ==
    /\ [](\A i \in Regions : \A j \in Regions :
            i < j => zeroed_regions[i].start < zeroed_regions[j].start)
    /\ [](\A j \in Regions :
            /\ zeroed_regions[j].start <= zeroed_regions[j].end
            /\ zeroed_regions[j].start < zeroed_regions[j].end
                  <=> RegionLen >= 1)
    /\ [][zeroed_regions' # zeroed_regions =>
            /\ first_outlier' >= idx + WindowLen
            /\ end_idx' >= first_outlier'
            /\ (end_idx' > first_outlier') <=> (RegionLen >= 1)
            /\ idx' = end_idx'
            /\ zeroed_regions'[Len(zeroed_regions')] =
                  [start |-> first_outlier', end |-> end_idx',
                   val |-> replacement_value']]_vars

C9_Witness ==
    /\ pc = "done"
    /\ RegionLen = 0
    /\ Len(zeroed_regions) = 2
    /\ zeroed_regions[2].start = zeroed_regions[2].end
    /\ samples = Decoded

(***************************************************************************)
(* C10.  Frame: a sample that lies in no recorded interval holds its       *)
(* decoded 16-bit value; when no sample after the first baseline window is *)
(* an outlier with respect to that window, the interval list is empty and  *)
(* the sequence is unchanged.                                              *)
(***************************************************************************)
C10_Frame ==
    pc # "start" =>
        \A D \in {Decoded} :
            /\ Len(samples) = Len(D)
            /\ \A k \in 0..(Len(samples) - 1) :
                  ~Covered(k) => At(samples, k) = At(D, k)
            /\ (Finished /\ Len(D) > WindowLen /\ ExactOutliers(D, 0) = {}) =>
                  zeroed_regions = << >> /\ samples = D

C10_Witness ==
    /\ pc = "done"
    /\ Len(zeroed_regions) = 1
    /\ RegionLen = 2
    /\ samples # Decoded
    /\ \E k \in 0..(Len(samples) - 1) :
          /\ k > zeroed_regions[1].end
          /\ At(samples, k) \in SpikeVals

=============================================================================
